---- MODULE Spec2Model ----
(***************************************************************************)
(* The memoized derivation pipeline of the asciidoc transformer            *)
(* (src/index.js, src/lib/utils.js): the fingerprint function cacheKey,    *)
(* the process-wide LRU memo store, and the four memoized stages           *)
(* _nodeToAST, _nodeToHTML, headings and timeToRead, run on the            *)
(* single-threaded JavaScript job queue.                                   *)
(***************************************************************************)
EXTENDS Integers, Sequences, FiniteSets, TLC

(***************************************************************************)
(* Strings as the UTF-16 code units hash-sum folds over.                   *)
(***************************************************************************)
Chars(s) ==
  CASE s = "content"            -> <<99,111,110,116,101,110,116>>
    [] s = "key"                -> <<107,101,121>>
    [] s = "path"               -> <<112,97,116,104>>
    [] s = "timestamp"          -> <<116,105,109,101,115,116,97,109,112>>
    [] s = "[object String]"    -> <<91,111,98,106,101,99,116,32,83,116,114,105,110,103,93>>
    [] s = "string"             -> <<115,116,114,105,110,103>>
    [] s = "[object Number]"    -> <<91,111,98,106,101,99,116,32,78,117,109,98,101,114,93>>
    [] s = "number"             -> <<110,117,109,98,101,114>>
    [] s = "[object Undefined]" -> <<91,111,98,106,101,99,116,32,85,110,100,101,102,105,110,101,100,93>>
    [] s = "undefined"          -> <<117,110,100,101,102,105,110,101,100>>
    [] s = "[object Object]"    -> <<91,111,98,106,101,99,116,32,79,98,106,101,99,116,93>>
    [] s = "object"             -> <<111,98,106,101,99,116>>
    [] s = "ast"                -> <<97,115,116>>
    [] s = "html"               -> <<104,116,109,108>>
    [] s = "headings"           -> <<104,101,97,100,105,110,103,115>>
    [] s = "timeToRead"         -> <<116,105,109,101,84,111,82,101,97,100>>
    [] s = "a"                  -> <<97>>
    [] s = "b"                  -> <<98>>
    [] s = "/p"                 -> <<47,112>>
    [] s = "/q"                 -> <<47,113>>
    [] s = ""                   -> <<>>

\* The decimal digits of a non-negative number, as code units (Number#toString).
RECURSIVE Digits(_)
Digits(n) == IF n < 10 THEN <<48 + n>> ELSE Append(Digits(n \div 10), 48 + (n % 10))

(***************************************************************************)
(* hash-sum (required at src/lib/utils.js:1).  A hash is a number in       *)
(* 0 .. 2^32, kept as <<high 16 bits (0..65536), low 16 bits>>.            *)
(***************************************************************************)
Half == 256 * 256
HashValues == Nat \X Nat

\* The folds are functions: TLC evaluates the argument of a function
\* application once, before the body, so chained folds neither pile up on
\* the evaluation stack nor are evaluated more than once.

\* hash = ((hash << 5) - hash) + chr; hash |= 0      (31 * hash + chr mod 2^32)
FoldCharF[h \in HashValues, chr \in Nat] ==
  << (31 * h[1] + ((31 * h[2] + chr) \div Half)) % Half, (31 * h[2] + chr) % Half >>

FoldChar(h, chr) == FoldCharF[h, chr]

\* for (i = 0, len = text.length; i < len; i++)
RECURSIVE FoldLoop(_, _, _)
FoldLoop(h, text, i) ==
  IF i > Len(text) THEN h ELSE FoldLoop(FoldChar(h, text[i]), text, i + 1)

\* return hash < 0 ? hash * -2 : hash
PositiveF[h \in HashValues] ==
  IF h[1] < Half \div 2 THEN h
  ELSE LET w  == IF h[2] = 0 THEN << Half - h[1], 0 >>
                             ELSE << Half - 1 - h[1], Half - h[2] >>
       IN  << 2 * w[1] + ((2 * w[2]) \div Half), (2 * w[2]) % Half >>

Positive(h) == PositiveF[h]

foldF[h \in HashValues, text \in Seq(Nat)] ==
  IF Len(text) = 0 THEN h ELSE Positive(FoldLoop(h, text, 1))

fold(h, text) == foldF[h, text]

\* foldValue for the values a node field can hold: a string, a number, undefined.
\* A value is [t |-> typeof, s |-> its code units (value.toString())].
TypeTag(v) ==
  CASE v.t = "string"    -> "[object String]"
    [] v.t = "number"    -> "[object Number]"
    [] v.t = "undefined" -> "[object Undefined]"

foldValue(input, v, key) ==
  LET h == fold(fold(fold(input, Chars(key)), Chars(TypeTag(v))), Chars(v.t))
  IN  IF v.t = "undefined" THEN fold(h, Chars("undefined")) ELSE fold(h, v.s)

\* foldObject over {content, path, timestamp, key}: Object.keys(o).sort().
foldObject(h, o) ==
  foldValue(foldValue(foldValue(foldValue(h, o.content, "content"),
                                o.key, "key"), o.path, "path"),
            o.timestamp, "timestamp")

HexDigits(n) == << n \div 4096, (n \div 256) % 16, (n \div 16) % 16, n % 16 >>

\* pad(hash.toString(16), 8), as hex digits
Hex(h) == IF h[1] = Half THEN <<1, 0, 0, 0, 0, 0, 0, 0, 0>>
          ELSE HexDigits(h[1]) \o HexDigits(h[2])

\* sum(o) for an object literal o
hash(o) ==
  LET h0 == fold(fold(fold(<<0, 0>>, <<>>), Chars("[object Object]")), Chars("object"))
  IN  Hex(fold(foldObject(h0, o), Chars("[object Object]")))

Str(s) == [t |-> "string", s |-> Chars(s)]
Num(n) == [t |-> "number", s |-> Digits(n)]
Undefined == [t |-> "undefined", s |-> <<>>]

(***************************************************************************)
(* Bounds of the model.                                                    *)
(***************************************************************************)
\* Requests the host issues in one behaviour.
MaxReqs == 2
\* Bursts of requests for documents outside Nodes (capacity pressure).
MaxFills == 1
\* cache.get / cache.set calls of a store exercise
MaxOps == 5
\* word counts and speeds of a reading-time computation
\* calls of parse()
MaxParses == 2
MaxCount == 15
MaxSpeed == 8

(***************************************************************************)
(* Document nodes handed in by the host.  The resolvers read node.content, *)
(* node.internal.origin and node.internal.timestamp (cacheKey),            *)
(* node.source (the text given to the parser) and node.fileInfo.path.      *)
(***************************************************************************)
Nodes == {"A", "B", "T", "P", "V"}

Node(n) ==
  CASE n = "A" -> [content |-> Str("a"), source |-> "docA",
                   internal |-> [origin |-> Str("/p"), timestamp |-> Num(1)],
                   fileInfo |-> [path |-> "/p/x.adoc"]]
    \* the text to parse changed; content, origin and timestamp did not
    [] n = "B" -> [content |-> Str("a"), source |-> "docB",
                   internal |-> [origin |-> Str("/p"), timestamp |-> Num(1)],
                   fileInfo |-> [path |-> "/p/x.adoc"]]
    \* the text and the timestamp changed
    [] n = "T" -> [content |-> Str("a"), source |-> "docB",
                   internal |-> [origin |-> Str("/p"), timestamp |-> Num(2)],
                   fileInfo |-> [path |-> "/p/x.adoc"]]
    \* a document the parser rejects (no content field: parse() returns none)
    [] n = "P" -> [content |-> Undefined, source |-> "badParse",
                   internal |-> [origin |-> Str("/q"), timestamp |-> Num(1)],
                   fileInfo |-> [path |-> "/q/y.adoc"]]
    \* a document the converter fails on
    [] n = "V" -> [content |-> Str("b"), source |-> "badConvert",
                   internal |-> [origin |-> Str("/q"), timestamp |-> Num(10)],
                   fileInfo |-> [path |-> "/q/y.adoc"]]

\* path.dirname
dirname(p) == CASE p = "/p/x.adoc" -> "/p" [] p = "/q/y.adoc" -> "/q"

Keys == {"ast", "html", "headings", "timeToRead"}

\* A cacheKey that forgets the derivation key.
cacheKeyNoKey(node, key) ==
  hash([content |-> node.content, path |-> node.internal.origin,
        timestamp |-> node.internal.timestamp, key |-> Str("")])

cacheKey(node, key) ==
  hash([content |-> node.content, path |-> node.internal.origin,
        timestamp |-> node.internal.timestamp, key |-> Str(key)])

\* cacheKey of every node of the model, evaluated once.
KeyTable == [n \in Nodes, k \in Keys |-> cacheKey(Node(n), k)]

(***************************************************************************)
(* The external collaborators, at their interface: asciidoctor.load and    *)
(* Document#convert are deterministic in the text and the options, and     *)
(* throw on the documents they reject.                                     *)
(***************************************************************************)
Error(e) == [t |-> "error", e |-> e]

loadThrows(source) == source = "badParse"
convertThrows(source) == source = "badConvert"

\* asciidoctor.load(source, options)
load(source, options) == [t |-> "ast", source |-> source, options |-> options]

\* ast.convert(options)
convert(ast, options) ==
  [t |-> "html", source |-> ast.source, loaded |-> ast.options, options |-> options]

\* Object.values(ast.getRefs()): the references of the document, in the
\* parser's order.
getRefs(ast) ==
  CASE ast.source = "docA" -> << [level |-> 0, title |-> "Title", id |-> "_title"],
                                 [level |-> 3, title |-> "A <em>b</em>", id |-> "_a_b"] >>
    [] ast.source = "docB" -> << [level |-> 1, title |-> "One", id |-> "_one"],
                                 [level |-> 2, title |-> "Two", id |-> "_two"] >>
    [] OTHER -> << >>

\* words(sanitizeHTML(html, ...)).length
wordCount(html) ==
  CASE html.source = "docA" -> 5
    [] html.source = "docB" -> 900
    [] OTHER -> 0

\* Math.round(a / b) for a >= 0, b > 0: halves round up.
Round(a, b) == (2 * a + b) \div (2 * b)

(***************************************************************************)
(* Transformer instances (constructor, src/index.js:41-54).                *)
(***************************************************************************)
defaultOptions == [backend |-> "html5", parse |-> TRUE, safe |-> "safe", prism |-> TRUE]

\* defaultsDeep(localOptions, options, defaultOptions): the first layer that
\* defines a field wins.
defaultsDeep(localOptions, options, defaults) ==
  [f \in DOMAIN defaults |->
     IF f \in DOMAIN localOptions THEN localOptions[f]
     ELSE IF f \in DOMAIN options THEN options[f]
     ELSE defaults[f]]

AsciidocTransformer(options, context) ==
  [options |-> defaultsDeep(context.localOptions, options, defaultOptions)]

\* The instances the host constructed: one with the defaults, one configured.
Transformers ==
  << AsciidocTransformer([x \in {} |-> 0], [localOptions |-> [x \in {} |-> 0]]),
     AsciidocTransformer([backend |-> "docbook5", safe |-> "unsafe"],
                         [localOptions |-> [safe |-> "server"]]) >>

Instances == DOMAIN Transformers

(***************************************************************************)
(* The memo store: const cache = new LRU({ max: 1000 }) (src/index.js:8).  *)
(* A sequence of entries, the most recently used first.  An entry is       *)
(* [k |-> fingerprint, v |-> value, n |-> 1]; the entries of documents     *)
(* outside Nodes are kept as runs [k |-> <<>>, v |-> Filler, n |-> count]. *)
(***************************************************************************)
max == 1000

\* What cache.get returns for a key it does not hold.
Absent == [t |-> "undefined"]
Filler == [t |-> "filler"]

Has(c, k) == \E i \in 1..Len(c) : c[i].k = k
IndexOf(c, k) == CHOOSE i \in 1..Len(c) : c[i].k = k
Without(c, i) == SubSeq(c, 1, i - 1) \o SubSeq(c, i + 1, Len(c))

RECURSIVE Size(_)
Size(c) == IF c = << >> THEN 0 ELSE Head(c).n + Size(Tail(c))

\* A store that never evicts.
TrimNever(c) == c

\* Evict from the least recently used end until at most max entries remain.
RECURSIVE Trim(_)
Trim(c) ==
  IF Size(c) <= max THEN c
  ELSE LET last == c[Len(c)]
           over == Size(c) - max
       IN  IF last.n > over
           THEN SubSeq(c, 1, Len(c) - 1) \o << [last EXCEPT !.n = last.n - over] >>
           ELSE Trim(SubSeq(c, 1, Len(c) - 1))

\* A cache.get that does not refresh the entry's recency.
LRUTouchNone(c, k) == c

\* cache.get(key): the value, and the store with the entry made most recent.
LRUGet(c, k) == IF Has(c, k) THEN c[IndexOf(c, k)].v ELSE Absent
LRUTouch(c, k) ==
  IF Has(c, k) THEN << c[IndexOf(c, k)] >> \o Without(c, IndexOf(c, k)) ELSE c

\* cache.set(key, value)
LRUSet(c, k, v) ==
  Trim(<< [k |-> k, v |-> v, n |-> 1] >>
       \o (IF Has(c, k) THEN Without(c, IndexOf(c, k)) ELSE c))

\* n cache.set calls with the fingerprints of n documents outside Nodes
LRUSetOthers(c, n) == Trim(<< [k |-> << >>, v |-> Filler, n |-> n] >> \o c)

\* The fingerprints the store holds.
Resident(c) == { c[i].k : i \in 1..Len(c) } \ { << >> }

\* A truthiness under which an empty array counts as false.
TruthyNonEmpty(v) ==
  CASE v.t = "undefined" -> FALSE
    [] v.t = "int"       -> v.n # 0
    [] v.t = "headings"  -> v.list # << >>
    [] OTHER             -> TRUE

\* JavaScript truthiness of a stored value, as tested by `!cached`.
Truthy(v) ==
  CASE v.t = "undefined" -> FALSE
    [] v.t = "int"       -> v.n # 0
    [] OTHER             -> TRUE

(***************************************************************************)
(* State.                                                                  *)
(***************************************************************************)
VARIABLES
  cache,     \* the memo store
  promises,  \* the promises of the render computations started so far
  jobs,      \* the job queue: continuations ready to run, first in first out
  reqs,      \* the resolver calls the host has made
  loads,     \* per 'ast' fingerprint: calls of asciidoctor.load from _nodeToAST
  converts,  \* per 'html' fingerprint: calls of ast.convert
  evicted,   \* fingerprints of Nodes the store has evicted so far
  fills,     \* bursts of requests for other documents so far
  docs,      \* the nodes of Nodes the host's content graph holds in this run
  insts,     \* the transformer instances the host constructed for this run
  thisOptions, \* per instance: this.options, as the constructor stored it
  parseCalls,  \* the calls of asciidoctor.load made by parse(), in order
  ops          \* (history) the cache.get / cache.set calls of a store exercise

vars == << cache, promises, jobs, reqs, loads, converts, evicted, fills, docs, insts,
           thisOptions, parseCalls, ops >>

\* The runs explored: a document and its changed versions, the documents the
\* collaborators fail on, one document behind two transformer instances, one
\* document queried with varying call arguments.
Worlds ==
  { [docs |-> {"A", "B"}, insts |-> {1}],
    [docs |-> {"A", "T"}, insts |-> {1}],
    [docs |-> {"P", "V"}, insts |-> {1}],
    [docs |-> {"A"},      insts |-> {1, 2}],
    [docs |-> {"A"},      insts |-> {1}] }

Speeds == {2, 230}
HeadingArgs == { [depth |-> 1, stripTags |-> FALSE], [depth |-> 6, stripTags |-> TRUE] }
NoArgs == [none |-> TRUE]

\* The call arguments of a run: the schema's defaults (speed 230, stripTags
\* true), and every value where one document is queried through one instance.
VaryArgs == Cardinality(docs) = 1 /\ Cardinality(insts) = 1
CallSpeeds == IF VaryArgs THEN Speeds ELSE {230}
CallHeadingArgs == IF VaryArgs THEN HeadingArgs ELSE { [depth |-> 6, stripTags |-> TRUE] }

\* {...this.options, base_dir: path.dirname(node.fileInfo.path)}
withBaseDir(options, node) ==
  [f \in DOMAIN options \cup {"base_dir"} |->
     IF f = "base_dir" THEN dirname(node.fileInfo.path) ELSE options[f]]

\* With(v, F) is F(v) with v computed once: TLC evaluates an operator's
\* argument each time the operator's body uses it.
With(v, F(_)) == CHOOSE r \in { F(x) : x \in {v} } : TRUE

\* The part of the state the stages read and write.
Machine == [cache |-> cache, promises |-> promises, jobs |-> jobs, loads |-> loads]

(***************************************************************************)
(* _nodeToAST (src/index.js:204-215): synchronous.  Returns the machine    *)
(* after the call and either the value of the returned promise or the      *)
(* error thrown by asciidoctor.load.                                       *)
(***************************************************************************)
\* _nodeToAST without its cache.set.
nodeToASTNoSet(m, this, n) ==
  LET key    == KeyTable[n, "ast"]
      cached == LRUGet(m.cache, key)
      m1     == [m EXCEPT !.cache = LRUTouch(@, key)]
  IN  IF ~Truthy(cached)
      THEN LET m2  == [m1 EXCEPT !.loads[key] = @ + 1]
               ast == load(Node(n).source, withBaseDir(thisOptions[this], Node(n)))
           IN  IF loadThrows(Node(n).source)
               THEN [m |-> m2, ok |-> FALSE, v |-> Error("ParseError")]
               ELSE [m |-> m2, ok |-> TRUE, v |-> ast]
      ELSE [m |-> m1, ok |-> TRUE, v |-> cached]

nodeToAST(m, this, n) ==
  LET key    == KeyTable[n, "ast"]
      cached == LRUGet(m.cache, key)
      m1     == [m EXCEPT !.cache = LRUTouch(@, key)]
  IN  IF ~Truthy(cached)
      THEN LET m2  == [m1 EXCEPT !.loads[key] = @ + 1]
               ast == load(Node(n).source, withBaseDir(thisOptions[this], Node(n)))
           IN  IF loadThrows(Node(n).source)
               THEN [m |-> m2, ok |-> FALSE, v |-> Error("ParseError")]
               ELSE [m |-> [m2 EXCEPT !.cache = LRUSet(@, key, ast)], ok |-> TRUE, v |-> ast]
      ELSE [m |-> m1, ok |-> TRUE, v |-> cached]

(***************************************************************************)
(* _nodeToHTML (src/index.js:217-232).  On a miss the async function runs  *)
(* up to its await: it calls _nodeToAST and, unless that threw, leaves its *)
(* continuation on the job queue; then the promise is stored.  Returns the *)
(* machine and the value handed to Promise.resolve.                        *)
(***************************************************************************)
\* _nodeToHTML without its cache.set.
nodeToHTMLNoSet(m, this, n) ==
  LET key    == KeyTable[n, "html"]
      cached == LRUGet(m.cache, key)
      ent    == [t |-> "promise", p |-> Len(m.promises) + 1]
      Started(r) ==
        LET new == [node |-> n, this |-> this, waiters |-> << >>,
                    state |-> IF r.ok THEN "pending" ELSE "rejected",
                    v |-> IF r.ok THEN Absent ELSE r.v]
        IN  [m |-> [r.m EXCEPT
                      !.promises = Append(@, new),
                      !.jobs = IF r.ok
                               THEN Append(@, [t |-> "iife", id |-> ent.p, ok |-> TRUE, v |-> r.v])
                               ELSE @],
             v |-> ent]
  IN  IF ~Truthy(cached)
      THEN With(nodeToAST(m, this, n), Started)
      ELSE [m |-> [m EXCEPT !.cache = LRUTouch(@, key)], v |-> cached]

\* _nodeToHTML over a store keyed per transformer instance.
nodeToHTMLPerInstance(m, this, n) ==
  LET key    == << this >> \o KeyTable[n, "html"]
      cached == LRUGet(m.cache, key)
      ent    == [t |-> "promise", p |-> Len(m.promises) + 1]
      Started(r) ==
        LET new == [node |-> n, this |-> this, waiters |-> << >>,
                    state |-> IF r.ok THEN "pending" ELSE "rejected",
                    v |-> IF r.ok THEN Absent ELSE r.v]
        IN  [m |-> [r.m EXCEPT
                      !.promises = Append(@, new),
                      !.jobs = IF r.ok
                               THEN Append(@, [t |-> "iife", id |-> ent.p, ok |-> TRUE, v |-> r.v])
                               ELSE @,
                      !.cache = LRUSet(@, key, ent)],
             v |-> ent]
  IN  IF ~Truthy(cached)
      THEN With(nodeToAST(m, this, n), Started)
      ELSE [m |-> [m EXCEPT !.cache = LRUTouch(@, key)], v |-> cached]

\* _nodeToHTML that asks for the structured document before it looks for the
\* stored render.
nodeToHTMLViaAST(m, this, n) ==
  LET key    == KeyTable[n, "html"]
      cached == LRUGet(m.cache, key)
      ent    == [t |-> "promise", p |-> Len(m.promises) + 1]
      Started(r) ==
        LET new == [node |-> n, this |-> this, waiters |-> << >>,
                    state |-> IF r.ok THEN "pending" ELSE "rejected",
                    v |-> IF r.ok THEN Absent ELSE r.v]
        IN  [m |-> [r.m EXCEPT
                      !.promises = Append(@, new),
                      !.jobs = IF r.ok
                               THEN Append(@, [t |-> "iife", id |-> ent.p, ok |-> TRUE, v |-> r.v])
                               ELSE @,
                      !.cache = LRUSet(@, key, ent)],
             v |-> ent]
      Hit(r) == [m |-> [r.m EXCEPT !.cache = LRUTouch(@, key)], v |-> cached]
  IN  IF ~Truthy(cached)
      THEN With(nodeToAST(m, this, n), Started)
      ELSE With(nodeToAST(m, this, n), Hit)

nodeToHTML(m, this, n) ==
  LET key    == KeyTable[n, "html"]
      cached == LRUGet(m.cache, key)
      ent    == [t |-> "promise", p |-> Len(m.promises) + 1]
      \* the async function up to its await, then cache.set(key, cached)
      Started(r) ==
        LET new == [node |-> n, this |-> this, waiters |-> << >>,
                    state |-> IF r.ok THEN "pending" ELSE "rejected",
                    v |-> IF r.ok THEN Absent ELSE r.v]
        IN  [m |-> [r.m EXCEPT
                      !.promises = Append(@, new),
                      !.jobs = IF r.ok
                               THEN Append(@, [t |-> "iife", id |-> ent.p, ok |-> TRUE, v |-> r.v])
                               ELSE @,
                      !.cache = LRUSet(@, key, ent)],
             v |-> ent]
  IN  IF ~Truthy(cached)
      THEN With(nodeToAST(m, this, n), Started)
      ELSE [m |-> [m EXCEPT !.cache = LRUTouch(@, key)], v |-> cached]

\* The continuation of request r once the awaited value v is settled.
ReqJob(r, ok, v) == [t |-> "req", id |-> r, ok |-> ok, v |-> v]

\* An await that turns a rejected render into an empty output.
AwaitSwallow(m, r, v) ==
  LET empty == [t |-> "html", source |-> "", loaded |-> Absent, options |-> Absent]
  IN  IF v.t = "promise"
      THEN LET pr == m.promises[v.p]
           IN  IF pr.state = "pending"
               THEN [m EXCEPT !.promises[v.p].waiters = Append(@, r)]
               ELSE [m EXCEPT !.jobs = Append(@, ReqJob(r, TRUE,
                                        IF pr.state = "fulfilled" THEN pr.v ELSE empty))]
      ELSE [m EXCEPT !.jobs = Append(@, ReqJob(r, TRUE, v))]

\* await v / then(v) by request r: a pending promise records the waiter, a
\* settled promise or a plain value queues the continuation.
Await(m, r, v) ==
  IF v.t = "promise"
  THEN LET pr == m.promises[v.p]
       IN  IF pr.state = "pending"
           THEN [m EXCEPT !.promises[v.p].waiters = Append(@, r)]
           ELSE [m EXCEPT !.jobs = Append(@, ReqJob(r, pr.state = "fulfilled", pr.v))]
  ELSE [m EXCEPT !.jobs = Append(@, ReqJob(r, TRUE, v))]

\* Write the machine back; the fingerprints that left the store are noted.
Commit(m) ==
  /\ cache' = m.cache
  /\ promises' = m.promises
  /\ jobs' = m.jobs
  /\ loads' = m.loads
  /\ evicted' = evicted \cup (Resident(cache) \ Resident(m.cache))

\* A resolver call: its arguments, where it stands ("await" or "done"), what
\* it returned or threw, and (history) the calls that were awaiting when it
\* began and the artifacts of its node the store held then.
Request(kind, n, this, args, pc, result) ==
  [kind |-> kind, node |-> n, this |-> this, args |-> args, pc |-> pc, result |-> result,
   during |-> { i \in 1..Len(reqs) : reqs[i].pc = "await" },
   found |-> { k \in Keys : Has(cache, KeyTable[n, k]) }]

Init ==
  /\ cache = << >>
  /\ promises = << >>
  /\ jobs = << >>
  /\ reqs = << >>
  /\ loads = [k \in { KeyTable[n, "ast"] : n \in Nodes } |-> 0]
  /\ converts = [k \in { KeyTable[n, "html"] : n \in Nodes } |-> 0]
  /\ evicted = {}
  /\ fills = 0
  /\ \E w \in Worlds : docs = w.docs /\ insts = w.insts
  /\ thisOptions = [i \in Instances |-> Transformers[i].options]
  /\ parseCalls = << >>
  /\ ops = << >>

(***************************************************************************)
(* content: resolve: node => this._nodeToHTML(node) (src/index.js:141-144) *)
(***************************************************************************)
StartContent(n, this) ==
  /\ Len(reqs) < MaxReqs
  /\ \E res \in {nodeToHTML(Machine, this, n)} :
       \E m \in {Await(res.m, Len(reqs) + 1, res.v)} : Commit(m)
  /\ reqs' = Append(reqs, Request("content", n, this, NoArgs, "await", Absent))
  /\ UNCHANGED << converts, fills, docs, insts, thisOptions, parseCalls, ops >>

\* The host receives the settled result of a content request.
ResumeContent ==
  /\ jobs # << >>
  /\ Head(jobs).t = "req"
  /\ reqs[Head(jobs).id].kind = "content"
  /\ reqs' = [reqs EXCEPT ![Head(jobs).id].pc = "done",
                          ![Head(jobs).id].result = Head(jobs).v]
  /\ jobs' = Tail(jobs)
  /\ UNCHANGED << cache, promises, loads, converts, evicted, fills, docs, insts, thisOptions, parseCalls, ops >>

\* A render that settles its promise and resumes no waiter.
RunRenderNoWake ==
  /\ jobs # << >>
  /\ Head(jobs).t = "iife"
  /\ LET p    == Head(jobs).id
         pr   == promises[p]
         ast  == Head(jobs).v
         opts == withBaseDir(thisOptions[pr.this], Node(pr.node))
         ok   == ~convertThrows(ast.source)
         v    == IF ok THEN convert(ast, opts) ELSE Error("ConvertError")
     IN  /\ converts' = [converts EXCEPT ![KeyTable[pr.node, "html"]] = @ + 1]
         /\ promises' = [promises EXCEPT ![p].state = IF ok THEN "fulfilled" ELSE "rejected",
                                         ![p].v = v,
                                         ![p].waiters = << >>]
         /\ jobs' = Tail(jobs)
  /\ UNCHANGED << cache, reqs, loads, evicted, fills, docs, insts, thisOptions, parseCalls, ops >>

(***************************************************************************)
(* The async function of _nodeToHTML after its await (src/index.js:223-225)*)
(* : ast.convert, which settles the promise and wakes its waiters in       *)
(* order.                                                                  *)
(***************************************************************************)
RunRender ==
  /\ jobs # << >>
  /\ Head(jobs).t = "iife"
  /\ LET p    == Head(jobs).id
         pr   == promises[p]
         ast  == Head(jobs).v
         opts == withBaseDir(thisOptions[pr.this], Node(pr.node))
         ok   == ~convertThrows(ast.source)
         v    == IF ok THEN convert(ast, opts) ELSE Error("ConvertError")
     IN  /\ converts' = [converts EXCEPT ![KeyTable[pr.node, "html"]] = @ + 1]
         /\ promises' = [promises EXCEPT ![p].state = IF ok THEN "fulfilled" ELSE "rejected",
                                         ![p].v = v,
                                         ![p].waiters = << >>]
         /\ jobs' = Tail(jobs) \o [i \in 1..Len(pr.waiters) |-> ReqJob(pr.waiters[i], ok, v)]
  /\ UNCHANGED << cache, reqs, loads, evicted, fills, docs, insts, thisOptions, parseCalls, ops >>

(***************************************************************************)
(* headings.resolve (src/index.js:155-171), up to its await.  A throw of   *)
(* _nodeToAST rejects the call at once.                                    *)
(***************************************************************************)
StartHeadings(n, this, args) ==
  /\ Len(reqs) < MaxReqs
  /\ LET r        == Len(reqs) + 1
         key      == KeyTable[n, "headings"]
         headings == LRUGet(cache, key)
     IN  IF ~Truthy(headings)
         THEN \E res \in {nodeToAST(Machine, this, n)} :
                IF res.ok
                THEN /\ \E m \in {Await(res.m, r, res.v)} : Commit(m)
                     /\ reqs' = Append(reqs, Request("headings", n, this, args, "await", Absent))
                ELSE /\ Commit(res.m)
                     /\ reqs' = Append(reqs, Request("headings", n, this, args, "done", res.v))
         ELSE /\ \E m \in {[Machine EXCEPT !.cache = LRUTouch(@, key)]} : Commit(m)
              /\ reqs' = Append(reqs, Request("headings", n, this, args, "done", headings))
  /\ UNCHANGED << converts, fills, docs, insts, thisOptions, parseCalls, ops >>

\* The heading list built from the references of the document.
headingsOf(ast) ==
  [t |-> "headings",
   list |-> [i \in 1..Len(getRefs(ast)) |->
               [depth |-> getRefs(ast)[i].level,
                value |-> getRefs(ast)[i].title,
                anchor |-> getRefs(ast)[i].id]]]

\* headings.resolve after its await (src/index.js:161-170)
ResumeHeadings ==
  /\ jobs # << >>
  /\ Head(jobs).t = "req"
  /\ reqs[Head(jobs).id].kind = "headings"
  /\ LET r        == Head(jobs).id
         headings == headingsOf(Head(jobs).v)
         key      == KeyTable[reqs[r].node, "headings"]
     IN  /\ \E m \in {[Machine EXCEPT !.jobs = Tail(@), !.cache = LRUSet(@, key, headings)]} :
              Commit(m)
         /\ reqs' = [reqs EXCEPT ![r].pc = "done", ![r].result = headings]
  /\ UNCHANGED << converts, fills, docs, insts, thisOptions, parseCalls, ops >>

(***************************************************************************)
(* timeToRead.resolve (src/index.js:182-199), up to its await.             *)
(***************************************************************************)
\* timeToRead.resolve without its `if (!cached)`: it always recomputes.
StartTimeToReadAlways(n, this, speed) ==
  /\ Len(reqs) < MaxReqs
  /\ \E res \in {nodeToHTML(Machine, this, n)} :
       \E m \in {Await(res.m, Len(reqs) + 1, res.v)} : Commit(m)
  /\ reqs' = Append(reqs, Request("timeToRead", n, this, [speed |-> speed], "await", Absent))
  /\ UNCHANGED << converts, fills, docs, insts, thisOptions, parseCalls, ops >>

StartTimeToRead(n, this, speed) ==
  /\ Len(reqs) < MaxReqs
  /\ LET r      == Len(reqs) + 1
         key    == KeyTable[n, "timeToRead"]
         cached == LRUGet(cache, key)
     IN  IF ~Truthy(cached)
         THEN /\ \E res \in {nodeToHTML(Machine, this, n)} :
                   \E m \in {Await(res.m, r, res.v)} : Commit(m)
              /\ reqs' = Append(reqs, Request("timeToRead", n, this, [speed |-> speed],
                                              "await", Absent))
         ELSE /\ \E m \in {[Machine EXCEPT !.cache = LRUTouch(@, key)]} : Commit(m)
              /\ reqs' = Append(reqs, Request("timeToRead", n, this, [speed |-> speed],
                                              "done", cached))
  /\ UNCHANGED << converts, fills, docs, insts, thisOptions, parseCalls, ops >>

\* cached = Math.round(count / speed), without the `|| 1`
readingTimeNoFloor(count, speed) == [t |-> "int", n |-> Round(count, speed)]

\* cached = Math.round(count / speed) || 1
readingTime(count, speed) ==
  [t |-> "int", n |-> IF Round(count, speed) = 0 THEN 1 ELSE Round(count, speed)]

\* timeToRead.resolve after its await (src/index.js:187-198): a rejected
\* render is rethrown, a rendered output is counted and the time stored.
ResumeTimeToRead ==
  /\ jobs # << >>
  /\ Head(jobs).t = "req"
  /\ reqs[Head(jobs).id].kind = "timeToRead"
  /\ LET r      == Head(jobs).id
         key    == KeyTable[reqs[r].node, "timeToRead"]
         cached == readingTime(wordCount(Head(jobs).v), reqs[r].args.speed)
     IN  IF Head(jobs).ok
         THEN /\ \E m \in {[Machine EXCEPT !.jobs = Tail(@), !.cache = LRUSet(@, key, cached)]} :
                   Commit(m)
              /\ reqs' = [reqs EXCEPT ![r].pc = "done", ![r].result = cached]
         ELSE /\ \E m \in {[Machine EXCEPT !.jobs = Tail(@)]} : Commit(m)
              /\ reqs' = [reqs EXCEPT ![r].pc = "done", ![r].result = Head(jobs).v]
  /\ UNCHANGED << converts, fills, docs, insts, thisOptions, parseCalls, ops >>

(***************************************************************************)
(* The host resolves artifacts of documents outside Nodes: each stores one *)
(* more entry in the shared store (cache.set at src/index.js:211, 228).    *)
(***************************************************************************)
FillSizes == {max - 1, max}

OtherRequests(n) ==
  /\ fills < MaxFills
  /\ fills' = fills + 1
  /\ \E m \in {[Machine EXCEPT !.cache = LRUSetOthers(@, n)]} : Commit(m)
  /\ UNCHANGED << reqs, converts, docs, insts, thisOptions, parseCalls, ops >>

Next ==
  \/ \E n \in docs, this \in insts : StartContent(n, this)
  \/ \E n \in docs, this \in insts, args \in CallHeadingArgs : StartHeadings(n, this, args)
  \/ \E n \in docs, this \in insts, speed \in CallSpeeds : StartTimeToRead(n, this, speed)
  \/ RunRender
  \/ ResumeContent
  \/ ResumeHeadings
  \/ ResumeTimeToRead
  \/ \E n \in FillSizes : OtherRequests(n)

Spec == Init /\ [][Next]_vars

(***************************************************************************)
(* Properties.                                                             *)
(***************************************************************************)
ReqIds == 1..Len(reqs)
IsDone(r) == reqs[r].pc = "done"
IsError(v) == v.t = "error"

\* Two content requests for the same node, the second begun while the first
\* was still awaited.
ContentPairs ==
  { pr \in ReqIds \X ReqIds :
      /\ pr[1] < pr[2]
      /\ reqs[pr[1]].kind = "content" /\ reqs[pr[2]].kind = "content"
      /\ reqs[pr[1]].node = reqs[pr[2]].node
      /\ pr[1] \in reqs[pr[2]].during }

\* C1 as stated: with no eviction, two concurrent content requests for one
\* node make ast.convert run exactly once and receive the same result.
C1_ConvertExactlyOnce ==
  evicted = {} =>
    \A pr \in ContentPairs :
      (IsDone(pr[1]) /\ IsDone(pr[2])) =>
        /\ converts[KeyTable[reqs[pr[1]].node, "html"]] = 1
        /\ reqs[pr[1]].result = reqs[pr[2]].result

\* C1 (amended): with no eviction, two concurrent content requests for one
\* node receive the same result (the same output or the same error), and
\* ast.convert has run exactly once, or not at all when the render stopped at
\* a throwing parse.
C1_SingleFlight ==
  evicted = {} =>
    \A pr \in ContentPairs :
      (IsDone(pr[1]) /\ IsDone(pr[2])) =>
        /\ reqs[pr[1]].result = reqs[pr[2]].result
        /\ converts[KeyTable[reqs[pr[1]].node, "html"]]
             = IF reqs[pr[1]].result = Error("ParseError") THEN 0 ELSE 1

\* Two concurrent content requests have both received the rendered output.
C1_Witness ==
  /\ evicted = {}
  /\ \E pr \in ContentPairs :
       /\ IsDone(pr[1]) /\ IsDone(pr[2])
       /\ reqs[pr[1]].result.t = "html"
       /\ reqs[pr[2]].result.t = "html"

\* The computations in flight for a fingerprint: the headings and timeToRead
\* calls that found it absent and have not stored their value yet, and the
\* unsettled render computations.
Computing(f) ==
  { << "req", r >> : r \in { r \in ReqIds :
        /\ reqs[r].pc = "await"
        /\ reqs[r].kind \in {"headings", "timeToRead"}
        /\ KeyTable[reqs[r].node, reqs[r].kind] = f } }
  \cup
  { << "iife", p >> : p \in { p \in 1..Len(promises) :
        /\ promises[p].state = "pending"
        /\ KeyTable[promises[p].node, "html"] = f } }

\* C2: at most one computation is in flight for a fingerprint at any time.
C2_AtMostOneComputation ==
  \A n \in docs, k \in Keys : Cardinality(Computing(KeyTable[n, k])) <= 1

\* C3: after a failed parse or convert the store holds no entry for the
\* fingerprint that was being filled: no stored promise is a rejected one.
C3_FailureClearsEntry ==
  \A i \in 1..Len(cache) :
    cache[i].v.t = "promise" => promises[cache[i].v.p].state # "rejected"

\* C4: a request never returns a value derived from another text than the
\* node's own: the output renders node.source, the headings are its
\* references, the reading time counts its words (at some speed).
C4_NoStaleness ==
  \A r \in ReqIds :
    (IsDone(r) /\ ~IsError(reqs[r].result)) =>
      LET own == [source |-> Node(reqs[r].node).source]
      IN  CASE reqs[r].kind = "content"    -> reqs[r].result.source = own.source
            [] reqs[r].kind = "headings"   -> reqs[r].result = headingsOf(own)
            [] reqs[r].kind = "timeToRead" ->
                 reqs[r].result \in { readingTime(wordCount(own), s) : s \in Speeds }

\* C5 as stated: with no eviction, asciidoctor.load and ast.convert each run
\* at most once for a node.
C5_AtMostOnceEach ==
  evicted = {} =>
    \A n \in docs : /\ loads[KeyTable[n, "ast"]] <= 1
                    /\ converts[KeyTable[n, "html"]] <= 1

\* A content request begins for a node for which a content request is done.
SecondContent ==
  /\ Len(reqs') = Len(reqs) + 1
  /\ reqs'[Len(reqs')].kind = "content"
  /\ \E q \in ReqIds : /\ reqs[q].kind = "content"
                       /\ reqs[q].node = reqs'[Len(reqs')].node
                       /\ IsDone(q)

\* C5 (amended): with no eviction, ast.convert runs at most once for a node,
\* asciidoctor.load runs at most once unless it throws (a throwing parse
\* stores nothing and is run again), and a content request after a completed
\* one runs neither and starts no render.
C5_NoRedundantWork ==
  [][ evicted' = {} =>
        /\ \A n \in docs :
             /\ converts'[KeyTable[n, "html"]] <= 1
             /\ ~loadThrows(Node(n).source) => loads'[KeyTable[n, "ast"]] <= 1
        /\ SecondContent =>
             /\ loads' = loads /\ converts' = converts
             /\ promises' = promises ]_vars

\* After a completed content request a second one has completed with the
\* rendered output: one parse, one conversion.
C5_Witness ==
  /\ evicted = {}
  /\ \E a, b \in ReqIds :
       /\ a < b /\ IsDone(a) /\ IsDone(b)
       /\ reqs[a].kind = "content" /\ reqs[b].kind = "content"
       /\ reqs[a].node = reqs[b].node
       /\ a \notin reqs[b].during
       /\ reqs[b].result.t = "html"
       /\ loads[KeyTable[reqs[a].node, "ast"]] = 1
       /\ converts[KeyTable[reqs[a].node, "html"]] = 1

\* The nodes of the model with the (content, origin, timestamp) of node n.
SameTriple(n) ==
  { x \in Nodes : /\ Node(x).content = Node(n).content
                  /\ Node(x).internal = Node(n).internal }

\* C6: what a request returns is a function of the node's (content, origin,
\* timestamp), the artifact and the call's own arguments: the output, the
\* headings and, at the call's own speed, the reading time of a document with
\* that triple.
C6_Purity ==
  \A r \in ReqIds :
    (IsDone(r) /\ ~IsError(reqs[r].result)) =>
      \E x \in SameTriple(reqs[r].node) :
        LET doc == [source |-> Node(x).source]
        IN  CASE reqs[r].kind = "content"    -> reqs[r].result.source = doc.source
              [] reqs[r].kind = "headings"   -> reqs[r].result = headingsOf(doc)
              [] reqs[r].kind = "timeToRead" ->
                   reqs[r].result = readingTime(wordCount(doc), reqs[r].args.speed)

\* A timeToRead call begins while the store holds an entry for its fingerprint.
TimeToReadHit ==
  /\ Len(reqs') = Len(reqs) + 1
  /\ reqs'[Len(reqs')].kind = "timeToRead"
  /\ Has(cache, KeyTable[reqs'[Len(reqs')].node, "timeToRead"])

\* C7: a timeToRead call that finds the entry resident returns at once the
\* stored value, whatever its own speed: the value a completed call computed
\* for that call's speed; nothing is parsed, converted, queued or stored.
C7_SpeedNotInKey ==
  [][ TimeToReadHit =>
        LET r      == reqs'[Len(reqs')]
            key    == KeyTable[r.node, "timeToRead"]
            stored == LRUGet(cache, key)
        IN  /\ r.pc = "done"
            /\ r.result = stored
            /\ LRUGet(cache', key) = stored
            /\ loads' = loads /\ converts' = converts
            /\ promises' = promises /\ jobs' = jobs
            /\ \E q \in ReqIds :
                 /\ IsDone(q)
                 /\ reqs[q].kind = "timeToRead"
                 /\ KeyTable[reqs[q].node, "timeToRead"] = key
                 /\ reqs[q].result = stored
                 /\ \E x \in SameTriple(r.node) :
                      stored = readingTime(wordCount([source |-> Node(x).source]),
                                           reqs[q].args.speed) ]_vars

\* A call at speed s2 after a completed call at another speed s1 has returned
\* the value of s1, which is not the reading time at s2.
C7_Witness ==
  \E a, b \in ReqIds :
    /\ a < b /\ IsDone(a) /\ IsDone(b) /\ a \notin reqs[b].during
    /\ reqs[a].kind = "timeToRead" /\ reqs[b].kind = "timeToRead"
    /\ reqs[a].node = reqs[b].node
    /\ reqs[a].args.speed # reqs[b].args.speed
    /\ reqs[a].result.t = "int"
    /\ reqs[b].result = reqs[a].result
    /\ reqs[b].result # readingTime(wordCount([source |-> Node(reqs[b].node).source]),
                                    reqs[b].args.speed)

\* C8: a request on a document whose parse (or, for content and timeToRead,
\* conversion) throws fails with that error, and the store holds for that
\* document no headings entry, no reading time and no fulfilled render.
C8_ErrorsPropagate ==
  /\ \A r \in ReqIds :
       IsDone(r) =>
         /\ loadThrows(Node(reqs[r].node).source) =>
              reqs[r].result = Error("ParseError")
         /\ (convertThrows(Node(reqs[r].node).source)
               /\ reqs[r].kind \in {"content", "timeToRead"}) =>
              reqs[r].result = Error("ConvertError")
  /\ \A n \in docs :
       /\ loadThrows(Node(n).source) => ~Has(cache, KeyTable[n, "headings"])
       /\ (loadThrows(Node(n).source) \/ convertThrows(Node(n).source)) =>
            /\ ~Has(cache, KeyTable[n, "timeToRead"])
            /\ Has(cache, KeyTable[n, "html"]) =>
                 /\ LRUGet(cache, KeyTable[n, "html"]).t = "promise"
                 /\ promises[LRUGet(cache, KeyTable[n, "html"]).p].state # "fulfilled"

\* A timeToRead call has failed with the converter's error and a content call
\* with the parser's.
C8_Witness ==
  /\ \E r \in ReqIds : /\ IsDone(r) /\ reqs[r].kind = "timeToRead"
                       /\ reqs[r].result = Error("ConvertError")
  /\ \E r \in ReqIds : /\ IsDone(r) /\ reqs[r].kind = "content"
                       /\ reqs[r].result = Error("ParseError")

\* A stored value that is not a computation still running.
Resolved(v) == v.t = "promise" => promises[v.p].state # "pending"

\* C9: a resolved entry is not replaced while it is resident: every later
\* lookup finds the same entry.
C9_ResolvedStays ==
  [][ \A f \in Resident(cache) \cap Resident(cache') :
        Resolved(LRUGet(cache, f)) => LRUGet(cache', f) = LRUGet(cache, f) ]_vars

\* Node fields the fingerprints are compared over.
Contents == { Str("a"), Str("b"), Undefined }
Origins == { Str("/p"), Str("/q") }
Timestamps == { Num(1), Num(2), Num(10) }

\* The four derivation keys give four different fingerprints.
KeysIsolated ==
  \A c \in Contents, o \in Origins, ts \in Timestamps :
    \A k1, k2 \in Keys :
      k1 # k2 =>
        cacheKey([content |-> c, internal |-> [origin |-> o, timestamp |-> ts]], k1)
          # cacheKey([content |-> c, internal |-> [origin |-> o, timestamp |-> ts]], k2)

\* What each slot of a node holds.
SlotType(k) ==
  CASE k = "ast"        -> "ast"
    [] k = "html"       -> "promise"
    [] k = "headings"   -> "headings"
    [] k = "timeToRead" -> "int"

StoreKeys == { KeyTable["A", k] : k \in {"ast", "html", "headings"} }
BurstSizes == {max - 2, max - 1}

StoreFrame ==
  /\ evicted' = evicted \cup (Resident(cache) \ Resident(cache'))
  /\ UNCHANGED << promises, jobs, reqs, loads, converts, fills, docs, insts,
                  thisOptions, parseCalls >>

CacheGet(k) ==
  /\ Len(ops) < MaxOps
  /\ cache' = LRUTouch(cache, k)
  /\ ops' = Append(ops, [op |-> "get", k |-> k])
  /\ StoreFrame

CacheSet(k) ==
  /\ Len(ops) < MaxOps
  /\ cache' = LRUSet(cache, k, [t |-> "int", n |-> 1])
  /\ ops' = Append(ops, [op |-> "set", k |-> k])
  /\ StoreFrame

CacheSetOthers(n) ==
  /\ Len(ops) < MaxOps
  /\ \A i \in 1..Len(ops) : ops[i].op # "others"
  /\ cache' = LRUSetOthers(cache, n)
  /\ ops' = Append(ops, [op |-> "others", k |-> << >>])
  /\ StoreFrame

InitLRU == Init /\ docs = {"A"} /\ insts = {1}

NextLRU ==
  \/ \E k \in StoreKeys : CacheGet(k)
  \/ \E k \in StoreKeys : CacheSet(k)
  \/ \E n \in BurstSizes : CacheSetOthers(n)

SpecLRU == InitLRU /\ [][NextLRU]_vars

\* The position in the log of the last get or set of fingerprint k (of the
\* burst, for k = << >>); 0 when there is none.
LastUse(k) ==
  IF \E i \in 1..Len(ops) : ops[i].k = k
  THEN CHOOSE i \in 1..Len(ops) : ops[i].k = k /\ \A j \in (i + 1)..Len(ops) : ops[j].k # k
  ELSE 0

\* The fingerprints of the store, the burst's entries counted as << >>.
Held(c) == { c[i].k : i \in 1..Len(c) }

\* A cache.set with a fingerprint the store does not hold, at capacity.
SetWhenFull ==
  /\ Len(ops') = Len(ops) + 1
  /\ ops'[Len(ops')].op = "set"
  /\ ops'[Len(ops')].k \notin Resident(cache)
  /\ Size(cache) = max

\* C11: a set with a new fingerprint on a full store evicts exactly one
\* entry, the one whose last get or set is the oldest in the log; an entry
\* whose last use is a get later than every other entry's last use stays.
C11_EvictsLeastRecentlyUsed ==
  [][ SetWhenFull =>
        LET k      == ops'[Len(ops')].k
            oldest == CHOOSE f \in Held(cache) :
                        \A g \in Held(cache) : LastUse(f) <= LastUse(g)
        IN  /\ Size(cache') = max
            /\ Resident(cache') \subseteq Resident(cache) \cup {k}
            /\ k \in Resident(cache')
            /\ IF oldest = << >>
               THEN Resident(cache) \subseteq Resident(cache')
               ELSE /\ Resident(cache) \ Resident(cache') = {oldest}
                    /\ \A i \in 1..Len(cache) :
                         cache[i].k = << >> =>
                           \E j \in 1..Len(cache') :
                             cache'[j].k = << >> /\ cache'[j].n = cache[i].n
            /\ \A g \in Resident(cache) :
                 (/\ ops[LastUse(g)].op = "get"
                  /\ \A f \in Held(cache) \ {g} : LastUse(f) < LastUse(g))
                   => g \in Resident(cache') ]_vars

\* A full store has evicted, at a set with a new fingerprint, the entry set
\* second, while the entry set first, read by get since, has stayed.
C11_Witness ==
  /\ Len(ops) = 5
  /\ Size(cache) = max
  /\ ops[1].op = "set" /\ ops[2].op = "set" /\ ops[3].op = "others"
  /\ ops[4].op = "get" /\ ops[5].op = "set"
  /\ ops[4].k = ops[1].k
  /\ Cardinality({ops[1].k, ops[2].k, ops[5].k}) = 3
  /\ Resident(cache) = {ops[1].k, ops[5].k}

(***************************************************************************)
(* timeToRead.resolve on a miss (src/index.js:186-198), for a rendered     *)
(* output of any word count and any speed: the time is computed, stored    *)
(* and returned.  The call is logged with the count it found.              *)
(***************************************************************************)
Counts == 0..MaxCount
SpeedsFrom1 == 1..MaxSpeed

TimeToReadMiss(count, speed) ==
  /\ ~Truthy(LRUGet(cache, KeyTable["A", "timeToRead"]))
  /\ LET key    == KeyTable["A", "timeToRead"]
         cached == readingTime(count, speed)
     IN  /\ cache' = LRUSet(LRUTouch(cache, key), key, cached)
         /\ reqs' = Append(reqs, [kind |-> "timeToRead", node |-> "A", this |-> 1,
                                  args |-> [speed |-> speed], pc |-> "done",
                                  result |-> cached, during |-> {}, found |-> {},
                                  count |-> count])
  /\ UNCHANGED << promises, jobs, loads, converts, evicted, fills, docs, insts,
                  thisOptions, parseCalls, ops >>

InitReadingTime == Init /\ docs = {"A"} /\ insts = {1}
NextReadingTime == \E count \in Counts, speed \in SpeedsFrom1 : TimeToReadMiss(count, speed)
SpecReadingTime == InitReadingTime /\ [][NextReadingTime]_vars

\* The integer nearest to count / speed, halves rounded up.
Nearest(count, speed) ==
  CHOOSE n \in 0..count :
    2 * n * speed <= 2 * count + speed /\ 2 * count + speed < 2 * (n + 1) * speed

\* C12: on a miss, for every word count >= 0 and every speed >= 1, the call
\* returns and stores max(1, round(count / speed)): never 0.
C12_ReadingTimeFloor ==
  \A r \in ReqIds :
    LET want == IF Nearest(reqs[r].count, reqs[r].args.speed) >= 1
                THEN Nearest(reqs[r].count, reqs[r].args.speed) ELSE 1
    IN  /\ reqs[r].result = [t |-> "int", n |-> want]
        /\ reqs[r].result.n >= 1
        /\ LRUGet(cache, KeyTable[reqs[r].node, "timeToRead"]) = reqs[r].result

\* A call whose count / speed rounds to 0 has returned 1.
C12_Witness ==
  \E r \in ReqIds :
    /\ 2 * reqs[r].count < reqs[r].args.speed
    /\ reqs[r].result.n = 1
    /\ LRUGet(cache, KeyTable[reqs[r].node, "timeToRead"]).n = 1

(***************************************************************************)
(* parse(source) (src/index.js:70-137): the host calls it when it reads a  *)
(* file.  Up to its return it makes one call of the external parser, with  *)
(* a copy of this.options in which safe is 'secure'.                       *)
(***************************************************************************)
Safes == {"unsafe", "safe", "server", "secure"}
Sources == {"docA", "docB", "badParse"}

\* What the user may configure for `safe`: nothing, or a level.
OptionLayers == { [x \in {} |-> 0] } \cup { [safe |-> lv] : lv \in Safes }

\* parse() that writes the override into this.options.
parseInPlace(stored, source) ==
  LET opts == [stored EXCEPT !.safe = "secure"]
  IN  [call |-> [source |-> source, options |-> opts],
       options |-> opts,
       returned |-> IF loadThrows(source) THEN Error("ParseError")
                    ELSE [t |-> "fields", source |-> load(source, opts).source]]

\* The method on an instance whose this.options is `stored`: the call of
\* asciidoctor.load it makes, this.options after it, what it returns or throws.
parse(stored, source) ==
  LET opts == [stored EXCEPT !.safe = "secure"]   \* {...this.options, safe: 'secure'}
  IN  [call |-> [source |-> source, options |-> opts],
       options |-> stored,
       returned |-> IF loadThrows(source) THEN Error("ParseError")
                    ELSE [t |-> "fields", source |-> load(source, opts).source]]

Parse(this, source) ==
  /\ Len(parseCalls) < MaxParses
  /\ \E res \in {parse(thisOptions[this], source)} :
       /\ parseCalls' = Append(parseCalls, [this |-> this, call |-> res.call,
                                            returned |-> res.returned])
       /\ thisOptions' = [thisOptions EXCEPT ![this] = res.options]
  /\ UNCHANGED << cache, promises, jobs, reqs, loads, converts, evicted, fills,
                  docs, insts, ops >>

\* Instance 1 is constructed from any configuration of `safe`.
InitParse ==
  /\ cache = << >> /\ promises = << >> /\ jobs = << >> /\ reqs = << >>
  /\ loads = [k \in { KeyTable[n, "ast"] : n \in Nodes } |-> 0]
  /\ converts = [k \in { KeyTable[n, "html"] : n \in Nodes } |-> 0]
  /\ evicted = {} /\ fills = 0 /\ ops = << >> /\ parseCalls = << >>
  /\ docs = {"A"} /\ insts = {1, 2}
  /\ \E o \in OptionLayers, l \in OptionLayers :
       thisOptions = [i \in Instances |->
                        IF i = 1 THEN AsciidocTransformer(o, [localOptions |-> l]).options
                        ELSE Transformers[i].options]

NextParse == \E this \in insts, source \in Sources : Parse(this, source)

SpecParse == InitParse /\ [][NextParse]_vars

\* C13: every call of parse hands the parser safe = 'secure' and otherwise
\* the instance's options, whatever `safe` the instance stores, and leaves
\* the stored options of every instance as they were.
C13_ParseForcesSecure ==
  [][ Len(parseCalls') = Len(parseCalls) + 1 =>
        LET c == parseCalls'[Len(parseCalls')]
        IN  /\ c.call.options.safe = "secure"
            /\ \A f \in DOMAIN thisOptions[c.this] \ {"safe"} :
                 c.call.options[f] = thisOptions[c.this][f]
            /\ thisOptions' = thisOptions ]_vars

\* parse has run on an instance configured 'unsafe': the parser got 'secure'
\* and the instance still stores 'unsafe'.
C13_Witness ==
  \E i \in 1..Len(parseCalls) :
    /\ parseCalls[i].call.options.safe = "secure"
    /\ thisOptions[parseCalls[i].this].safe = "unsafe"

\* A content call begins while the store holds the render of its node and
\* not its structured document.
ContentWithoutAST ==
  /\ Len(reqs') = Len(reqs) + 1
  /\ reqs'[Len(reqs')].kind = "content"
  /\ "html" \in reqs'[Len(reqs')].found
  /\ "ast" \notin reqs'[Len(reqs')].found

\* C14: a content call that finds the render stored and the structured
\* document gone runs neither asciidoctor.load nor ast.convert and starts no
\* render: it is handed the stored render, and what it returns is that
\* render's value.
C14_RenderOutlivesAST ==
  [][ /\ ContentWithoutAST =>
           LET r   == Len(reqs')
               key == KeyTable[reqs'[r].node, "html"]
               p   == LRUGet(cache, key).p
           IN  /\ loads' = loads /\ converts' = converts
               /\ Len(promises') = Len(promises)
               /\ LRUGet(cache', key) = LRUGet(cache, key)
               /\ ~Has(cache', KeyTable[reqs'[r].node, "ast"])
               /\ IF promises[p].state = "pending"
                  THEN /\ promises'[p].waiters = Append(promises[p].waiters, r)
                       /\ jobs' = jobs
                  ELSE jobs' = Append(jobs, ReqJob(r, promises[p].state = "fulfilled",
                                                   promises[p].v))
      /\ \A r \in 1..Len(reqs') :
           (/\ reqs'[r].kind = "content" /\ reqs'[r].pc = "done"
            /\ "html" \in reqs'[r].found /\ "ast" \notin reqs'[r].found) =>
             \E p \in 1..Len(promises') :
               /\ KeyTable[promises'[p].node, "html"] = KeyTable[reqs'[r].node, "html"]
               /\ promises'[p].state # "pending"
               /\ reqs'[r].result = promises'[p].v ]_vars

\* A content call begun after the structured document was evicted has
\* returned the rendered output; the parser ran once in all.
C14_Witness ==
  \E r \in ReqIds :
    /\ reqs[r].kind = "content" /\ IsDone(r)
    /\ "html" \in reqs[r].found /\ "ast" \notin reqs[r].found
    /\ KeyTable[reqs[r].node, "ast"] \in evicted
    /\ reqs[r].result.t = "html"
    /\ loads[KeyTable[reqs[r].node, "ast"]] = 1

(***************************************************************************)
(* The event loop runs every job it has queued: the continuation of a      *)
(* render and the continuations of the calls awaiting a settled value.     *)
(* The runs are those of one instance on a document that renders and on    *)
(* the documents the collaborators fail on.                                *)
(***************************************************************************)
InitFair == Init /\ insts = {1} /\ docs \in { {"A"}, {"P", "V"} }

FairSpec ==
  /\ InitFair
  /\ [][Next]_vars
  /\ WF_vars(RunRender)
  /\ WF_vars(ResumeContent)
  /\ WF_vars(ResumeHeadings)
  /\ WF_vars(ResumeTimeToRead)

\* No render is pending and no call is awaiting.
AllSettled ==
  /\ \A p \in 1..Len(promises) : promises[p].state # "pending"
  /\ \A r \in ReqIds : IsDone(r)

\* C15: whatever is pending settles: from every state the run reaches a
\* state where no render is pending and no call is awaiting, also when the
\* entry of a pending render was evicted.
C15_PendingSettles == []<>AllSettled

\* A render is pending, a call awaits it, and the store has evicted its entry.
C15_Witness ==
  \E p \in 1..Len(promises) :
    /\ promises[p].state = "pending"
    /\ promises[p].waiters # << >>
    /\ ~Has(cache, KeyTable[promises[p].node, "html"])
    /\ KeyTable[promises[p].node, "html"] \in evicted

\* C16: the store never holds more than max (1000) entries, whatever the
\* requests and however many other documents were resolved.
C16_CapacityBound == Size(cache) <= max

\* The store is full, holds an artifact of a node of the run, and has
\* evicted another.
C16_Witness ==
  /\ Size(cache) = max
  /\ Resident(cache) # {}
  /\ evicted # {}

\* The references of a document as the resolver maps them, none left out,
\* titles as the parser gives them.
FullList(source) ==
  [i \in 1..Len(getRefs([source |-> source])) |->
     [depth  |-> getRefs([source |-> source])[i].level,
      value  |-> getRefs([source |-> source])[i].title,
      anchor |-> getRefs([source |-> source])[i].id]]

\* C17: for every node and every depth and stripTags, a headings call that
\* returns gives the full list of the references of the node's document, in
\* the parser's order, unfiltered and unstripped.
C17_HeadingsFullList ==
  \A r \in ReqIds :
    (IsDone(r) /\ reqs[r].kind = "headings" /\ ~IsError(reqs[r].result)) =>
      reqs[r].result.list = FullList(Node(reqs[r].node).source)

\* The part of C17 the code keeps: whatever depth and stripTags, the list is
\* the full list of a document with the node's (content, origin, timestamp).
HeadingsIgnoreArgs ==
  \A r \in ReqIds :
    (IsDone(r) /\ reqs[r].kind = "headings" /\ ~IsError(reqs[r].result)) =>
      \E x \in SameTriple(reqs[r].node) :
        reqs[r].result.list = FullList(Node(x).source)

\* A resolver call begins.
CallBegins == Len(reqs') = Len(reqs) + 1

\* C18: every value the store holds for a node is truthy, so a lookup that
\* finds an entry resident is a hit: a headings or timeToRead call returns
\* the stored value at once, a stored render starts no new render, a stored
\* structured document is not parsed again.
C18_ResidentIsHit ==
  [][ /\ \A i \in 1..Len(cache') :
           cache'[i].k # << >> => Truthy(cache'[i].v)
      /\ CallBegins =>
           LET r == reqs'[Len(reqs')]
           IN  /\ (r.kind \in {"headings", "timeToRead"} /\ r.kind \in r.found) =>
                    /\ r.pc = "done"
                    /\ r.result = LRUGet(cache, KeyTable[r.node, r.kind])
                    /\ loads' = loads /\ promises' = promises /\ jobs' = jobs
               /\ (r.kind \in {"content", "timeToRead"} /\ "html" \in r.found) =>
                    /\ Len(promises') = Len(promises)
                    /\ loads' = loads
               /\ "ast" \in r.found => loads' = loads ]_vars

\* A headings call has found an empty heading list resident and returned it.
C18_Witness ==
  \E r \in ReqIds :
    /\ reqs[r].kind = "headings" /\ IsDone(r)
    /\ "headings" \in reqs[r].found
    /\ reqs[r].result.t = "headings"
    /\ reqs[r].result.list = << >>

\* The derivation key of the artifact a resolver returns.
SlotOf(kind) == IF kind = "content" THEN "html" ELSE kind

\* Two completed content or headings calls for the same artifact of the same
\* fingerprint.
SameArtifact ==
  { pr \in ReqIds \X ReqIds :
      /\ pr[1] < pr[2]
      /\ IsDone(pr[1]) /\ IsDone(pr[2])
      /\ reqs[pr[1]].kind = reqs[pr[2]].kind
      /\ KeyTable[reqs[pr[1]].node, SlotOf(reqs[pr[1]].kind)]
           = KeyTable[reqs[pr[2]].node, SlotOf(reqs[pr[2]].kind)]
      /\ reqs[pr[1]].kind \in {"content", "headings"} }

\* C19: the store is shared and its key has no instance in it: with no
\* eviction, two content or headings calls for the same (content, origin,
\* timestamp) return the same value whichever instances made them; a
\* reading time found in the store is the one a completed call of some
\* instance returned; and a rendered output carries the options of the
\* instance that started the render, not those of the instance that asked.
C19_SharedAcrossInstances ==
  /\ evicted = {} =>
       \A pr \in SameArtifact : reqs[pr[1]].result = reqs[pr[2]].result
  /\ \A r \in ReqIds :
       (IsDone(r) /\ reqs[r].kind = "timeToRead" /\ "timeToRead" \in reqs[r].found) =>
         \E q \in ReqIds \ {r} :
           /\ IsDone(q) /\ reqs[q].kind = "timeToRead"
           /\ KeyTable[reqs[q].node, "timeToRead"] = KeyTable[reqs[r].node, "timeToRead"]
           /\ reqs[q].result = reqs[r].result
  /\ \A r \in ReqIds :
       (IsDone(r) /\ reqs[r].kind = "content" /\ reqs[r].result.t = "html") =>
         \E p \in 1..Len(promises) :
           /\ KeyTable[promises[p].node, "html"] = KeyTable[reqs[r].node, "html"]
           /\ reqs[r].result = promises[p].v
           /\ reqs[r].result.options
                = withBaseDir(thisOptions[promises[p].this], Node(promises[p].node))

\* An instance configured with another backend has returned the output the
\* first instance rendered with its own.
C19_Witness ==
  \E pr \in SameArtifact :
    /\ reqs[pr[1]].kind = "content"
    /\ reqs[pr[1]].this # reqs[pr[2]].this
    /\ reqs[pr[2]].result.t = "html"
    /\ reqs[pr[2]].result = reqs[pr[1]].result
    /\ reqs[pr[2]].result.options.backend # thisOptions[reqs[pr[2]].this].backend

====
